---- MODULE Spec2Model ----
(***************************************************************************)
(* Model of streamlit_app.py (Truck Optimiser): the inventory input        *)
(* widgets, the two select boxes, the "Run 3D Packing" button handler and  *)
(* the cursor walk generate_mock_3d_layout behind the four packing         *)
(* algorithm names.                                                        *)
(*                                                                         *)
(* Units.  The script computes in metres (Python floats) and kilograms.    *)
(* The model uses exact integers: lengths in centimetres (1.5 m = 150,     *)
(* spacing 0.1 m = 10), volumes in cubic centimetres (1.8 m^3 = 1800000),  *)
(* weights in kilograms.  Every comparison and sum of the script is kept   *)
(* as written, in exact decimal arithmetic.  In binary floating point a    *)
(* cursor sum that fits exactly (5.3 + 2.0 against 7.3) can come out one   *)
(* ulp above the limit and wrap one parcel earlier than here; no parcel    *)
(* list over the value sets below meets such a sum.                        *)
(***************************************************************************)
EXTENDS Integers, Sequences, FiniteSets

\* ------------------------------------------------------------------------
\* Bounds of the model
\* ------------------------------------------------------------------------
\* most parcels the inventory lists may hold (individual rows plus bulk quantities)
MaxParcels == 2

\* values a number_input of the form can be set to (cm / kg); the weight
\* stays at the widget default, the walk never reads it
WeightValues == {100}
LengthValues == {100, 700}
WidthValues == {100, 200}
HeightValues == {10, 100}

\* ------------------------------------------------------------------------
\* Program constants
\* ------------------------------------------------------------------------
spacing == 10

\* max_value of "Number of Individual Inventory"
max_individual == 200

\* max_value of "Number of Bulk Inventory Types"
max_bulk_entries == 20

\* min_value of "Quantity"
min_quantity == 1

vehicle_types ==
  << [name |-> "Small van",         max_length |-> 150,  max_width |-> 120, max_height |-> 110,   max_weight |-> 360,   max_volume |-> 1800000,  cost |-> 100],
     [name |-> "Medium wheel base", max_length |-> 300,  max_width |-> 120, max_height |-> 190,   max_weight |-> 1400,  max_volume |-> 3600000,  cost |-> 130],
     [name |-> "Sprinter van",      max_length |-> 420,  max_width |-> 120, max_height |-> 175,   max_weight |-> 950,   max_volume |-> 5040000,  cost |-> 135],
     [name |-> "luton van",         max_length |-> 400,  max_width |-> 200, max_height |-> 200,   max_weight |-> 1000,  max_volume |-> 8000000,  cost |-> 160],
     [name |-> "7.5T CS",           max_length |-> 600,  max_width |-> 288, max_height |-> 220,   max_weight |-> 2600,  max_volume |-> 17280000, cost |-> 150],
     [name |-> "18T CS",            max_length |-> 730,  max_width |-> 288, max_height |-> 230,   max_weight |-> 9800,  max_volume |-> 21024000, cost |-> 175],
     [name |-> "40ft CS",           max_length |-> 1350, max_width |-> 300, max_height |-> 300,   max_weight |-> 28000, max_volume |-> 40500000, cost |-> 185],
     [name |-> "20ft FB",           max_length |-> 730,  max_width |-> 240, max_height |-> 30000, max_weight |-> 10500, max_volume |-> 17520000, cost |-> 180],
     [name |-> "40ft FB",           max_length |-> 1350, max_width |-> 240, max_height |-> 30000, max_weight |-> 30000, max_volume |-> 32400000, cost |-> 190],
     [name |-> "40T Low Loader",    max_length |-> 1350, max_width |-> 240, max_height |-> 30000, max_weight |-> 30000, max_volume |-> 32400000, cost |-> 195] >>

TruckNames == { vehicle_types[i].name : i \in 1..Len(vehicle_types) }

AlgoNames == {"Extreme Point Heuristic", "Layer-Based Packing", "Skyline 3D", "Guillotine 3D"}

\* value= defaults of the number_input widgets of one inventory row
DefaultParcel == [weight |-> 100, length |-> 100, width |-> 100, height |-> 100]

DefaultBulk == [quantity |-> min_quantity, weight |-> 100, length |-> 100, width |-> 100, height |-> 100]

\* ------------------------------------------------------------------------
\* State
\* ------------------------------------------------------------------------
VARIABLES
  individual,      \* widget rows wt_i / len_i / wid_i / hei_i
  bulk,            \* widget rows qty_i / b_wt_i / b_len_i / b_wid_i / b_hei_i
  selected_algo,   \* selectbox "Select 3D Packing Algorithm"
  selected_truck,  \* selectbox "Select Truck Type"
  clicked,         \* st.button("Run 3D Packing") is true in the current script run
  layout,          \* the handler's local `layout` (<<>> when the handler did not run)
  output           \* elements the handler wrote to the page in the current run

vars == <<individual, bulk, selected_algo, selected_truck, clicked, layout, output>>

\* ------------------------------------------------------------------------
\* Building the inventory lists
\* ------------------------------------------------------------------------
Row(r) == [weight |-> r.weight, length |-> r.length, width |-> r.width, height |-> r.height]

\* for _ in range(quantity): append
Repeat(r, q) == [k \in 1..q |-> Row(r)]

RECURSIVE BulkExpand(_)
BulkExpand(b) ==
  IF b = <<>> THEN <<>>
  ELSE Repeat(Head(b), Head(b).quantity) \o BulkExpand(Tail(b))

\* the parallel lists weights/lengths/widths/heights, kept as one list of rows
inventory == individual \o BulkExpand(bulk)

\* parcel_data as built by the handler
parcel_data == [i \in 1..Len(inventory) |-> Row(inventory[i])]

truck_spec == CHOOSE v \in { vehicle_types[i] : i \in 1..Len(vehicle_types) } : v.name = selected_truck

truck_dims == <<truck_spec.max_length, truck_spec.max_width, truck_spec.max_height>>

\* ------------------------------------------------------------------------
\* generate_mock_3d_layout
\* ------------------------------------------------------------------------
\* variant: the walk starts one spacing away from the wall
Cursor0_gap == [x |-> spacing, y |-> 0, z |-> 0]

Cursor0 == [x |-> 0, y |-> 0, z |-> 0]

\* if x_cursor + l > max_x: x_cursor = 0; y_cursor += w + spacing
WrapX(c, p, dims) ==
  IF c.x + p.length > dims[1]
    THEN [c EXCEPT !.x = 0, !.y = c.y + p.width + spacing]
    ELSE c

\* variant: the layer wrap forgets to reset y_cursor
WrapY_noreset(c, p, dims) ==
  IF c.y + p.width > dims[2]
    THEN [c EXCEPT !.z = c.z + p.height + spacing]
    ELSE c

\* if y_cursor + w > max_y: y_cursor = 0; z_cursor += h + spacing
WrapY(c, p, dims) ==
  IF c.y + p.width > dims[2]
    THEN [c EXCEPT !.y = 0, !.z = c.z + p.height + spacing]
    ELSE c

\* if z_cursor + h > max_z: break
Overflows(c, p, dims) == c.z + p.height > dims[3]

Entry(idx, c, p) ==
  [id |-> idx, x |-> c.x, y |-> c.y, z |-> c.z,
   length |-> p.length, width |-> p.width, height |-> p.height]

\* variant: the cursor advances by the spacing only
Advance_nolength(c, p) == [c EXCEPT !.x = c.x + spacing]

\* x_cursor += l + spacing
Advance(c, p) == [c EXCEPT !.x = c.x + p.length + spacing]

\* variant: an overflowing parcel is skipped and the walk goes on
LoopBody_skip(w, idx, p, dims) ==
  LET c == WrapY(WrapX(w.cursor, p, dims), p, dims)
  IN  IF Overflows(c, p, dims)
        THEN w
        ELSE [layout |-> Append(w.layout, Entry(idx, c, p)),
              cursor |-> Advance(c, p),
              broke  |-> FALSE]

\* one iteration of the for loop on parcel number idx (1-based id)
LoopBody(w, idx, p, dims) ==
  IF w.broke THEN w
  ELSE LET c == WrapY(WrapX(w.cursor, p, dims), p, dims)
       IN  IF Overflows(c, p, dims)
             THEN [w EXCEPT !.cursor = c, !.broke = TRUE]
             ELSE [layout |-> Append(w.layout, Entry(idx, c, p)),
                   cursor |-> Advance(c, p),
                   broke  |-> FALSE]

\* the loop after its first n iterations
RECURSIVE Walk(_, _, _)
Walk(parcels, dims, n) ==
  IF n = 0 THEN [layout |-> <<>>, cursor |-> Cursor0, broke |-> FALSE]
  ELSE LoopBody(Walk(parcels, dims, n - 1), n, parcels[n], dims)

generate_mock_3d_layout(parcels, dims) == Walk(parcels, dims, Len(parcels)).layout

extreme_point_packing(parcels, dims) == generate_mock_3d_layout(parcels, dims)

layer_based_packing(parcels, dims) == generate_mock_3d_layout(parcels, dims)

\* variant: this algorithm walks the parcels last to first
skyline_3d_packing_reversed(parcels, dims) ==
  generate_mock_3d_layout([i \in 1..Len(parcels) |-> parcels[Len(parcels) + 1 - i]], dims)

skyline_3d_packing(parcels, dims) == generate_mock_3d_layout(parcels, dims)

guillotine_3d_packing(parcels, dims) == generate_mock_3d_layout(parcels, dims)

packing_algorithms_3d(algo, parcels, dims) ==
  CASE algo = "Extreme Point Heuristic" -> extreme_point_packing(parcels, dims)
    [] algo = "Layer-Based Packing"     -> layer_based_packing(parcels, dims)
    [] algo = "Skyline 3D"              -> skyline_3d_packing(parcels, dims)
    [] algo = "Guillotine 3D"           -> guillotine_3d_packing(parcels, dims)

\* st.plotly_chart(fig): one Mesh3d trace per layout entry, titled by method
visualize_3d_layout(lay, dims, method_name) ==
  [kind |-> "plotly_chart", title |-> method_name, traces |-> lay, range |-> dims]

\* ------------------------------------------------------------------------
\* Script runs.  Every widget interaction reruns the script; the button is
\* true only in the run its click triggers.
\* ------------------------------------------------------------------------
Init ==
  /\ individual = <<>>
  /\ bulk = <<>>
  /\ selected_algo = "Extreme Point Heuristic"
  /\ selected_truck = "Small van"
  /\ clicked = FALSE
  /\ layout = <<>>
  /\ output = <<>>

NoRun ==
  /\ clicked' = FALSE
  /\ layout' = <<>>
  /\ output' = <<>>

SetNumIndividual ==
  \E n \in 0..MaxParcels :
    /\ n <= max_individual
    /\ n # Len(individual)
    /\ individual' = [i \in 1..n |-> IF i <= Len(individual) THEN individual[i] ELSE DefaultParcel]
    /\ n + Len(BulkExpand(bulk)) <= MaxParcels
    /\ NoRun
    /\ UNCHANGED <<bulk, selected_algo, selected_truck>>

EditIndividual ==
  \E i \in 1..Len(individual) :
    /\ \/ \E wt \in WeightValues : individual' = [individual EXCEPT ![i].weight = wt]
       \/ \E l \in LengthValues : individual' = [individual EXCEPT ![i].length = l]
       \/ \E w \in WidthValues : individual' = [individual EXCEPT ![i].width = w]
       \/ \E h \in HeightValues : individual' = [individual EXCEPT ![i].height = h]
    /\ individual' # individual
    /\ NoRun
    /\ UNCHANGED <<bulk, selected_algo, selected_truck>>

SetBulkEntries ==
  \E n \in 0..MaxParcels :
    /\ n <= max_bulk_entries
    /\ n # Len(bulk)
    /\ bulk' = [i \in 1..n |-> IF i <= Len(bulk) THEN bulk[i] ELSE DefaultBulk]
    /\ Len(individual) + Len(BulkExpand(bulk')) <= MaxParcels
    /\ NoRun
    /\ UNCHANGED <<individual, selected_algo, selected_truck>>

EditBulk ==
  \E i \in 1..Len(bulk) :
    /\ \/ \E q \in min_quantity..MaxParcels :
            /\ bulk' = [bulk EXCEPT ![i].quantity = q]
            /\ Len(individual) + Len(BulkExpand(bulk')) <= MaxParcels
       \/ \E wt \in WeightValues : bulk' = [bulk EXCEPT ![i].weight = wt]
       \/ \E l \in LengthValues : bulk' = [bulk EXCEPT ![i].length = l]
       \/ \E w \in WidthValues : bulk' = [bulk EXCEPT ![i].width = w]
       \/ \E h \in HeightValues : bulk' = [bulk EXCEPT ![i].height = h]
    /\ bulk' # bulk
    /\ NoRun
    /\ UNCHANGED <<individual, selected_algo, selected_truck>>

SelectAlgo ==
  \E a \in AlgoNames :
    /\ a # selected_algo
    /\ selected_algo' = a
    /\ NoRun
    /\ UNCHANGED <<individual, bulk, selected_truck>>

SelectTruck ==
  \E t \in TruckNames :
    /\ t # selected_truck
    /\ selected_truck' = t
    /\ NoRun
    /\ UNCHANGED <<individual, bulk, selected_algo>>

\* if st.button("Run 3D Packing"): ...
RunPacking ==
  /\ clicked' = TRUE
  /\ layout' = packing_algorithms_3d(selected_algo, parcel_data, truck_dims)
  /\ output' = << visualize_3d_layout(layout', truck_dims, selected_algo) >>
  /\ UNCHANGED <<individual, bulk, selected_algo, selected_truck>>

Next ==
  \/ SetNumIndividual
  \/ EditIndividual
  \/ SetBulkEntries
  \/ EditBulk
  \/ SelectAlgo
  \/ SelectTruck
  \/ RunPacking

Spec == Init /\ [][Next]_vars

\* ------------------------------------------------------------------------
\* Vocabulary of the properties
\* ------------------------------------------------------------------------
Max2(a, b) == IF a >= b THEN a ELSE b

Min2(a, b) == IF a <= b THEN a ELSE b

\* the two boxes share a region of positive volume
Overlap(a, b) ==
  /\ Max2(a.x, b.x) < Min2(a.x + a.length, b.x + b.length)
  /\ Max2(a.y, b.y) < Min2(a.y + a.width, b.y + b.width)
  /\ Max2(a.z, b.z) < Min2(a.z + a.height, b.z + b.height)

PairwiseDisjoint(lay) ==
  \A i, j \in 1..Len(lay) : i < j => ~Overlap(lay[i], lay[j])

InsideZ(e, dims) == e.z >= 0 /\ e.z + e.height <= dims[3]

Inside(e, dims) ==
  /\ e.x >= 0 /\ e.x + e.length <= dims[1]
  /\ e.y >= 0 /\ e.y + e.width <= dims[2]
  /\ InsideZ(e, dims)

FitsAlone(p, dims) == p.length <= dims[1] /\ p.width <= dims[2] /\ p.height <= dims[3]

FitsFootprint(p, dims) ==
  /\ p.length > 0 /\ p.width > 0 /\ p.height > 0
  /\ p.length <= dims[1] /\ p.width <= dims[2]

PlacedIds == { layout[i].id : i \in 1..Len(layout) }

Elements == { output[i] : i \in 1..Len(output) }

\* parcels the page names as not placed
ReportedUnplaced == UNION { e.parcels : e \in { o \in Elements : o.kind = "unplaced" } }

RECURSIVE PlacedWeight(_)
PlacedWeight(lay) ==
  IF lay = <<>> THEN 0 ELSE parcel_data[Head(lay).id].weight + PlacedWeight(Tail(lay))

RECURSIVE PlacedVolume(_)
PlacedVolume(lay) ==
  IF lay = <<>> THEN 0
  ELSE Head(lay).length * Head(lay).width * Head(lay).height + PlacedVolume(Tail(lay))

AllIdentical ==
  \A i, j \in 1..Len(parcel_data) :
    /\ parcel_data[i].length = parcel_data[j].length
    /\ parcel_data[i].width = parcel_data[j].width
    /\ parcel_data[i].height = parcel_data[j].height

\* the cursor the z test of parcel i sees, both wraps applied
CursorAt(i) ==
  WrapY(WrapX(Walk(parcel_data, truck_dims, i - 1).cursor, parcel_data[i], truck_dims),
        parcel_data[i], truck_dims)

\* ------------------------------------------------------------------------
\* Properties
\* ------------------------------------------------------------------------

\* C1: the layout produced by a run is pairwise interior-disjoint: no two
\* of its boxes intersect in positive volume.
C1_LayoutDisjoint == clicked => PairwiseDisjoint(layout)

\* C2: every entry of the layout produced by a run lies inside the
\* container on all three axes.
C2_LayoutInside == clicked => \A i \in 1..Len(layout) : Inside(layout[i], truck_dims)

\* C3: after a run every parcel of parcel_data is either in the layout or
\* reported as unplaced on the page.
C3_NoSilentDrop ==
  clicked => \A i \in 1..Len(parcel_data) : i \in PlacedIds \/ i \in ReportedUnplaced

\* C4: after a run the placed parcels weigh at most the selected vehicle's
\* max weight and fill at most its max volume.
C4_WithinCapacity ==
  clicked => /\ PlacedWeight(layout) <= truck_spec.max_weight
             /\ PlacedVolume(layout) <= truck_spec.max_volume

\* C5: a run on an empty parcel list ends in an error element and draws no
\* layout.
C5_EmptyRejected ==
  (clicked /\ Len(parcel_data) = 0) =>
     /\ \E e \in Elements : e.kind = "error"
     /\ ~ \E e \in Elements : e.kind = "plotly_chart"

\* C6: a run on exactly one parcel that fits the container on each axis
\* yields exactly one placement, at the origin, with the parcel's extents.
C6_SingleAtOrigin ==
  (clicked /\ Len(parcel_data) = 1 /\ FitsAlone(parcel_data[1], truck_dims)) =>
     layout = << [id |-> 1, x |-> 0, y |-> 0, z |-> 0,
                  length |-> parcel_data[1].length,
                  width  |-> parcel_data[1].width,
                  height |-> parcel_data[1].height] >>

C6_Witness ==
  /\ clicked
  /\ selected_truck = "Small van"
  /\ Len(parcel_data) = 1
  /\ parcel_data[1].length = 100 /\ parcel_data[1].width = 100 /\ parcel_data[1].height = 100
  /\ Len(layout) = 1

\* C7: whatever algorithm is selected, the layout of a run equals the
\* layout each of the four algorithms returns for the same parcels and
\* container.
C7_SelectorNoEffect ==
  clicked => \A a \in AlgoNames : packing_algorithms_3d(a, parcel_data, truck_dims) = layout

C7_Witness ==
  /\ clicked
  /\ selected_algo = "Guillotine 3D"
  /\ Len(layout) >= 2
  /\ ~AllIdentical

\* C8: the layout is a prefix of the input: k <= n entries with ids 1..k
\* carrying the extents of parcels 1..k; when k < n, parcel k+1 is the first
\* one whose z test fails after the wraps, and nothing after it is placed.
C8_LayoutIsPrefix ==
  clicked =>
    LET k == Len(layout)
        n == Len(parcel_data)
    IN  /\ k <= n
        /\ \A i \in 1..k :
              /\ layout[i].id = i
              /\ layout[i].length = parcel_data[i].length
              /\ layout[i].width = parcel_data[i].width
              /\ layout[i].height = parcel_data[i].height
              /\ ~Overflows(CursorAt(i), parcel_data[i], truck_dims)
        /\ k < n => Overflows(CursorAt(k + 1), parcel_data[k + 1], truck_dims)

C8_Witness ==
  /\ clicked
  /\ Len(layout) + 1 < Len(parcel_data)
  /\ \E j \in (Len(layout) + 2)..Len(parcel_data) : FitsAlone(parcel_data[j], truck_dims)

\* C9: every placement satisfies z >= 0 and z + height <= max_z; when every
\* parcel is positive and fits the footprint (length <= max_x, width <=
\* max_y), every placement lies inside the container on all three axes.
C9_InsideUnderFootprint ==
  clicked =>
    /\ \A i \in 1..Len(layout) : layout[i].z + layout[i].height <= truck_dims[3]
    /\ (\A j \in 1..Len(parcel_data) : FitsFootprint(parcel_data[j], truck_dims))
          => \A i \in 1..Len(layout) : Inside(layout[i], truck_dims)

C9_Witness ==
  /\ clicked
  /\ \A j \in 1..Len(parcel_data) : FitsFootprint(parcel_data[j], truck_dims)
  /\ ~AllIdentical
  /\ Len(layout) = Len(parcel_data)
  /\ \E i \in 1..Len(layout) : layout[i].z > 0

\* C10: when all parcels have the same extents the layout is pairwise
\* interior-disjoint, consecutive placements being offset by length +
\* spacing in x within a row, width + spacing in y between rows, or
\* height + spacing in z between layers.
C10_IdenticalDisjoint ==
  (clicked /\ AllIdentical) =>
     /\ PairwiseDisjoint(layout)
     /\ \A i \in 1..(Len(layout) - 1) :
          LET a == layout[i]
              b == layout[i + 1]
          IN  \/ b.x = a.x + a.length + spacing /\ b.y = a.y /\ b.z = a.z
              \/ b.x = 0 /\ b.y = a.y + a.width + spacing /\ b.z = a.z
              \/ b.y = 0 /\ b.z = a.z + a.height + spacing

C10_Witness ==
  /\ clicked
  /\ AllIdentical
  /\ Len(layout) = 2
  /\ layout[2].x = layout[1].length + spacing

====
